---- MODULE Spec2Model ----
(***************************************************************************)
(* Model of communlytics: load_data with its preprocessing, engagement     *)
(* labels, sentiment buckets and unanswered-question detector,             *)
(* get_user_persona and merge_slack_reddit (src/data_utils.py), the        *)
(* outbound functions of src/slack_utils.py and src/trello_utils.py, and   *)
(* the Tasks dashboard of src/app.py.                                      *)
(*                                                                         *)
(* Texts and display names are sequences of one-character strings, so that *)
(* "contains '?'", "contains '@'" and the name search are computed on the  *)
(* characters.  Timestamps are seconds.                                    *)
(***************************************************************************)
EXTENDS Integers, Sequences, FiniteSets, TLC

VARIABLES
    table,    \* the rows of the file load_data reads
    df,       \* the frame load_data returned
    status,   \* "input", then "loaded" or "raised"
    msgs,     \* one user's messages with their per-message features
    persona,  \* what get_user_persona returned for msgs
    pstatus,  \* "input", then "classified"
    raw,      \* the rows of a file as read_csv returns them, fields as written
    cparts,   \* the pieces of a text handed to categorize_message
    clabel,   \* the label categorize_message returned for it, "" before
    scored,   \* the polarities get_sentiment_score was given, each with its bucket
    env,      \* the credentials load_dotenv gave slack_utils and trello_utils
    lastcall, \* the last outbound call, the requests it made and how it ended
    resolved, \* st.session_state['resolved_tasks'], a set of index labels
    called,   \* the last run of main made an outbound call
    slackcsv, \* the rows of the Slack CSV handed to merge_slack_reddit
    redditcsv, \* the rows of the Reddit CSV handed to it
    merged,   \* the frame merge_slack_reddit returned
    mstatus,  \* "input", then "merged"
    view,     \* the filters of the last run of the Tasks dashboard and the tasks it displayed
    shuffle   \* the permutation of the file rows load_data was given as well, and how that load ended

loaderVars  == <<table, df, status>>
personaVars == <<msgs, persona, pstatus>>
textVars    == <<cparts, clabel>>
fileVars    == <<raw>>
scoreVars   == <<scored>>
outVars     == <<env, lastcall>>
appVars     == <<resolved, called>>
mergeVars   == <<slackcsv, redditcsv, merged, mstatus>>
taskVars    == <<view>>
shuffleVars == <<shuffle>>

vars == <<loaderVars, personaVars, textVars, fileVars, scoreVars, outVars, appVars, mergeVars, taskVars, shuffleVars>>

\* What the operations on one part of the state leave alone.
exceptLoader  == <<personaVars, textVars, fileVars, scoreVars, outVars, appVars, mergeVars, taskVars, shuffleVars>>
exceptPersona == <<loaderVars, textVars, fileVars, scoreVars, outVars, appVars, mergeVars, taskVars, shuffleVars>>
exceptText    == <<loaderVars, personaVars, fileVars, scoreVars, outVars, appVars, mergeVars, taskVars, shuffleVars>>
exceptFile    == <<loaderVars, personaVars, textVars, scoreVars, outVars, appVars, mergeVars, taskVars, shuffleVars>>
exceptScore   == <<loaderVars, personaVars, textVars, fileVars, outVars, appVars, mergeVars, taskVars, shuffleVars>>
exceptOut     == <<loaderVars, personaVars, textVars, fileVars, scoreVars, appVars, mergeVars, taskVars, shuffleVars>>
exceptApp     == <<loaderVars, personaVars, textVars, fileVars, scoreVars, outVars, mergeVars, taskVars, shuffleVars>>
exceptMerge   == <<loaderVars, personaVars, textVars, fileVars, scoreVars, outVars, appVars, taskVars, shuffleVars>>
exceptTask    == <<loaderVars, personaVars, textVars, fileVars, scoreVars, outVars, appVars, mergeVars, shuffleVars>>

(* ----------------------------- bounds ----------------------------------- *)

\* Number of rows of the input file.
MaxRows == 3

\* Number of rows of the file that is loaded in two orders.
MaxShuffled == 3

\* Number of messages of the user get_user_persona classifies.
MaxMsgs == 5

\* Number of rows of a file whose fields may be empty or unparseable.
MaxRaw == 3

\* Number of messages get_sentiment_score is applied to.
MaxScored == 2

\* Number of rows of each of the two files merge_slack_reddit reads.
MaxSource == 3

\* Number of tasks resolved in a session of the Tasks dashboard.
MaxResolved == 1

\* Number of pieces a text handed to categorize_message is put together from.
MaxPieces == 4

(* ------------------------- program constants ---------------------------- *)

\* timedelta(days=1), in seconds.
Day == 86400

(* ------------------------------ strings --------------------------------- *)

\* The lower-case form of each upper-case letter.
LowerMap ==
    ("A" :> "a") @@ ("B" :> "b") @@ ("C" :> "c") @@ ("D" :> "d") @@
    ("E" :> "e") @@ ("F" :> "f") @@ ("G" :> "g") @@ ("H" :> "h") @@
    ("I" :> "i") @@ ("J" :> "j") @@ ("K" :> "k") @@ ("L" :> "l") @@
    ("M" :> "m") @@ ("N" :> "n") @@ ("O" :> "o") @@ ("P" :> "p") @@
    ("Q" :> "q") @@ ("R" :> "r") @@ ("S" :> "s") @@ ("T" :> "t") @@
    ("U" :> "u") @@ ("V" :> "v") @@ ("W" :> "w") @@ ("X" :> "x") @@
    ("Y" :> "y") @@ ("Z" :> "z")

\* str.lower() / re.IGNORECASE on one character.
LowerChar(c) == IF c \in DOMAIN LowerMap THEN LowerMap[c] ELSE c

\* `c in text` for a single character c.
HasChar(text, c) == \E i \in 1..Len(text) : text[i] = c

\* Python's `needle.lower() in text.lower()`: the case-insensitive substring
\* test (what a literal, non-regex search computes).
SubstringIC(needle, text) ==
    \E i \in 1..(Len(text) + 1) :
        /\ i + Len(needle) - 1 <= Len(text)
        /\ \A k \in 1..Len(needle) : LowerChar(needle[k]) = LowerChar(text[i + k - 1])

(* --------------------- the regular-expression engine -------------------- *)
(* Series.str.contains(pat, case=False) keeps its default regex=True: pat   *)
(* is compiled by re.compile and searched with re.IGNORECASE.  The fragment *)
(* of the pattern language modelled: ordinary characters, '.', '^', and '(' *)
(* (an unterminated group, which re.compile rejects).                       *)

\* re.compile(pat) succeeds.
RegexCompiles(pat) == ~ HasChar(pat, "(")

\* The pattern from position k on matches the text starting at position i.
RECURSIVE RegexMatchAt(_, _, _, _)
RegexMatchAt(pat, k, text, i) ==
    IF k > Len(pat) THEN TRUE
    ELSE IF pat[k] = "^" THEN i = 1 /\ RegexMatchAt(pat, k + 1, text, i)
    ELSE IF pat[k] = "." THEN i <= Len(text) /\ RegexMatchAt(pat, k + 1, text, i + 1)
    ELSE /\ i <= Len(text)
         /\ LowerChar(pat[k]) = LowerChar(text[i])
         /\ RegexMatchAt(pat, k + 1, text, i + 1)

\* re.search(pat, text, re.IGNORECASE) is not None.
RegexSearchIC(pat, text) ==
    \E i \in 1..(Len(text) + 1) : RegexMatchAt(pat, 1, text, i)

\* valid_responses['sentences'].str.contains(user_name, case=False), per element.
NameTest(name, text) == RegexSearchIC(name, text)

(* ------------------------------ inputs ---------------------------------- *)

\* Display names.
NameAl    == <<"A", "l">>
NameBo    == <<"B", "o">>
NameDot   == <<".">>
NameCaret == <<"^", "a">>
NameParen == <<"(">>

\* (user, text) pairs a row of the input file may carry.
Messages ==
    { [user |-> NameBo,    text |-> <<"@", "a", "l", ".">>],
      [user |-> NameAl,    text |-> <<"@", "A", "L", "?">>],
      [user |-> NameDot,   text |-> <<"o", "k", "?">>],
      [user |-> NameCaret, text |-> <<"@", "^", "a", "?">>],
      [user |-> NameParen, text |-> <<"?">>] }

Channels == {"chA", "chB"}

\* Timestamps: a question at 1 has a response at 0 before it, at 1 with it and
\* at Day + 1 on the window's end; a question at 0 has Day + 1 just past the end.
Times == {0, 1, Day + 1}

\* Order of the channel names, as sort_values and groupby compare them.
ChannelRank(c) == CASE c = "chA" -> 1 [] c = "chB" -> 2 [] OTHER -> 3

(* -------------------------- categorize_message ------------------------- *)

\* The engagement labels of the 'Message Type' column.
LowEngagement    == "Low Engagement (Short/Emoji)"
HighEngagement   == "High Engagement (Question/Long)"
MediumEngagement == "Medium Engagement (Response)"

\* The characters str.split() separates words at.
Whitespace == {" ", "\t", "\n"}

\* len(text.split()): the maximal runs of characters that are not whitespace.
WordCount(text) ==
    Cardinality({i \in 1..Len(text) :
                    /\ text[i] \notin Whitespace
                    /\ (i = 1 \/ text[i - 1] \in Whitespace)})

\* Faulty variant of CategorizeMessage: the length test admits 100 characters.
CategorizeMessageLen100(text) ==
    IF WordCount(text) <= 3 THEN LowEngagement
    ELSE IF Len(text) >= 100 \/ HasChar(text, "?") THEN HighEngagement
    ELSE MediumEngagement

\* Faulty variant of CategorizeMessage: the '?' test comes before the word count.
CategorizeMessageQuestionFirst(text) ==
    IF HasChar(text, "?") THEN HighEngagement
    ELSE IF WordCount(text) <= 3 THEN LowEngagement
    ELSE IF Len(text) > 100 THEN HighEngagement
    ELSE MediumEngagement

\* categorize_message(text)
CategorizeMessage(text) ==
    IF WordCount(text) <= 3 THEN LowEngagement
    ELSE IF Len(text) > 100 \/ HasChar(text, "?") THEN HighEngagement
    ELSE MediumEngagement

(* ------------------------------ load_data ------------------------------- *)

\* df['is_question'] = df['sentences'].str.contains(r'\?', regex=True)
IsQuestion(text) == HasChar(text, "?")

\* pd.to_datetime(..., errors='coerce') gives NaT for a field it cannot parse.
NaT == -1

\* The timestamp fields a file holds and the seconds they parse to.
Timestamps == << <<"0">>, <<"1">> >>

\* pd.to_datetime(field, errors='coerce')
ToDatetime(field) ==
    IF \E k \in 1..Len(Timestamps) : Timestamps[k] = field
    THEN (CHOOSE k \in 1..Len(Timestamps) : Timestamps[k] = field) - 1
    ELSE NaT

\* The placeholder fillna puts in place of a missing user.
Anonymous == <<"A","n","o","n","y","m","o","u","s">>

\* astype(str) of a missing value.
NanText == <<"n","a","n">>

\* read_csv keeps an empty field as NaN; NoValue stands for it.
NoValue == <<>>

\* df['user'].fillna("Anonymous")
FillUser(user) == IF user = NoValue THEN Anonymous ELSE user

\* df['sentences'].astype(str)
AsStr(text) == IF text = NoValue THEN NanText ELSE text

\* The preprocessing of load_data: timestamps parsed, rows without one
\* dropped (the others keep their index labels), users and texts filled.
Preprocess(r) ==
    LET parsed == [i \in 1..Len(r) |->
                     [idx |-> i, workspace |-> r[i].workspace,
                      channel |-> r[i].channel,
                      ts |-> ToDatetime(r[i].timestamp),
                      user |-> FillUser(r[i].user), text |-> AsStr(r[i].text)]]
    IN  SelectSeq(parsed, LAMBDA x : x.ts # NaT)

\* The index labels read_csv gives the rows of a file.
Indexed(t) ==
    [i \in 1..Len(t) |->
        [idx |-> i, workspace |-> t[i].workspace, channel |-> t[i].channel,
         ts |-> t[i].ts, user |-> t[i].user, text |-> t[i].text]]

\* The derived columns: 'Message Type', is_question, and is_unanswered
\* initialised to False.  ('Sentiment Score' is left to Bucket below.)
Columns(f) ==
    [i \in 1..Len(f) |->
        [idx |-> f[i].idx, workspace |-> f[i].workspace,
         channel |-> f[i].channel, ts |-> f[i].ts,
         user |-> f[i].user, text |-> f[i].text,
         mtype |-> CategorizeMessage(f[i].text),
         is_question |-> IsQuestion(f[i].text),
         is_unanswered |-> FALSE]]

\* The frame after the derived columns are added: one record per input row,
\* idx the row's index label.
Enrich(t) == Columns(Indexed(t))

\* Row a sorts strictly before row b under by=['channel', 'ts'].
RowLess(a, b) ==
    \/ ChannelRank(a.channel) < ChannelRank(b.channel)
    \/ a.channel = b.channel /\ a.ts < b.ts

\* df.sort_values(by=['channel', 'ts']): a stable sort on the two keys.
\* Row k goes behind the rows that sort before it and the equal rows that
\* stand before it.
SortValues(s) ==
    LET Before(j, k) == RowLess(s[j], s[k]) \/ (~ RowLess(s[k], s[j]) /\ j < k)
        place == [k \in 1..Len(s) |-> 1 + Cardinality({j \in 1..Len(s) : Before(j, k)})]
    IN  [p \in 1..Len(s) |-> s[CHOOSE k \in 1..Len(s) : place[k] = p]]

\* Faulty variant of ChannelData: the frame is not partitioned by channel.
ChannelDataUngrouped(d, c) == d

\* df.groupby('channel'): the rows of one channel, in frame order.
ChannelData(d, c) == SelectSeq(d, LAMBDA r : r.channel = c)

\* The group keys groupby iterates over.
GroupKeys(d) == {d[i].channel : i \in 1..Len(d)}

\* responses = channel_data[channel_data['sentences'].str.contains('@')]
IsResponse(r) == HasChar(r.text, "@")

\* (responses['ts'] > question['ts']) & (responses['ts'] <= time_window_end)
InWindow(q, r) == r.ts > q.ts /\ r.ts <= q.ts + Day

\* is_answered for question q within its channel's rows cd.
IsAnswered(q, cd) ==
    \E j \in 1..Len(cd) :
        /\ IsResponse(cd[j])
        /\ InWindow(q, cd[j])
        /\ NameTest(q.user, cd[j].text)

\* Faulty variant of UnansweredIdx: the inner loop runs over every row of the channel,
\* not over its questions.
UnansweredIdxAllRows(d) ==
    UNION { LET cd == ChannelData(d, c)
            IN  {cd[i].idx : i \in {k \in 1..Len(cd) : ~ IsAnswered(cd[k], cd)}}
          : c \in GroupKeys(d) }

\* Index labels that the loops pass to df.at[idx, 'is_unanswered'] = True.
UnansweredIdx(d) ==
    UNION { LET cd == ChannelData(d, c)
            IN  {cd[i].idx : i \in {k \in 1..Len(cd) :
                                      cd[k].is_question /\ ~ IsAnswered(cd[k], cd)}}
          : c \in GroupKeys(d) }

\* str.contains compiles the asker's name for every question it examines;
\* re.error leaves load_data through no handler.
DetectorRaises(d) ==
    \E i \in 1..Len(d) : d[i].is_question /\ ~ RegexCompiles(d[i].user)

\* Faulty variant of Detect: the flag is written by position in the sorted
\* frame, not by index label.
DetectByPosition(e) ==
    LET sorted == SortValues(e)
        flagged == UnansweredIdx(sorted)
    IN  [i \in 1..Len(sorted) |->
            [sorted[i] EXCEPT !.is_unanswered = (i \in flagged)]]

\* The sort and the detection loops on an enriched frame.
Detect(e) ==
    LET sorted == SortValues(e)
        flagged == UnansweredIdx(sorted)
    IN  [i \in 1..Len(sorted) |->
            [sorted[i] EXCEPT !.is_unanswered = (sorted[i].idx \in flagged)]]

\* The frame load_data returns for rows that all have a timestamp, a user
\* and a text.
LoadData(t) == Detect(Enrich(t))

\* The frame load_data returns for the rows of any file.
LoadFile(r) == Detect(Columns(Preprocess(r)))

(* ------------------------------ actions --------------------------------- *)

\* Before load_dotenv ran, and before any outbound call.
NoEnv == [loaded |-> FALSE, key |-> "", token |-> "", slack |-> ""]
NoCall == [fn |-> "", requests |-> <<>>,
           result |-> [kind |-> "none", ok |-> FALSE, reason |-> ""]]

\* Before load_data was given the file with its rows in another order.
NoShuffle == [perm |-> <<>>, status |-> "input", df |-> <<>>]

\* Before the Tasks dashboard was drawn.
NoView == [workspaces |-> {}, channels |-> {}, tasks |-> <<>>]

NoPersona == [label |-> "", confidence |-> [num |-> 0, den |-> 1], description |-> ""]

Init ==
    /\ table = <<>>
    /\ df = <<>>
    /\ status = "input"
    /\ msgs = <<>>
    /\ persona = NoPersona
    /\ pstatus = "input"
    /\ cparts = <<>>
    /\ raw = <<>>
    /\ clabel = ""
    /\ scored = {}
    /\ env = NoEnv
    /\ lastcall = NoCall
    /\ resolved = {}
    /\ called = FALSE
    /\ slackcsv = <<>>
    /\ redditcsv = <<>>
    /\ merged = <<>>
    /\ mstatus = "input"
    /\ view = NoView
    /\ shuffle = NoShuffle

\* One more row in the file load_data will read.
AddRow ==
    /\ status = "input"
    /\ Len(table) < MaxRows
    /\ \E c \in Channels, t \in Times, m \in Messages :
          table' = Append(table, [workspace |-> "pythondev", channel |-> c, ts |-> t,
                                  user |-> m.user, text |-> m.text])
    /\ UNCHANGED <<df, status>>
    /\ UNCHANGED exceptLoader

\* load_data(path) on the file.
Load ==
    /\ status = "input"
    /\ IF DetectorRaises(Enrich(table))
         THEN status' = "raised" /\ df' = df
         ELSE status' = "loaded" /\ df' = LoadData(table)
    /\ UNCHANGED table
    /\ UNCHANGED exceptLoader

Next == AddRow \/ Load

Spec == Init /\ [][Next]_vars

(* ------------------- load_data on files with gaps ----------------------- *)

\* Fields of the rows of such a file: a timestamp that parses or not, a
\* user that is given, missing or no regular expression, a text that is
\* missing, a short question or a question of four words.
RawTimestamps == { <<"1">>, <<"x">> }
RawUsers == { NameAl, NoValue, NameParen }
RawTexts == { NoValue, <<"?">>, <<"a"," ","b"," ","c"," ","d","?">> }

\* One more row in the file.
AddRawRow ==
    /\ status = "input"
    /\ Len(raw) < MaxRaw
    /\ \E t \in RawTimestamps, u \in RawUsers, x \in RawTexts :
          raw' = Append(raw, [workspace |-> "pythondev", channel |-> "chA",
                              timestamp |-> t, user |-> u, text |-> x])
    /\ UNCHANGED exceptFile

\* load_data(path) on the file.
Ingest ==
    /\ status = "input"
    /\ IF DetectorRaises(Columns(Preprocess(raw)))
         THEN status' = "raised" /\ df' = df
         ELSE status' = "loaded" /\ df' = LoadFile(raw)
    /\ UNCHANGED table
    /\ UNCHANGED exceptLoader

NextIngest == AddRawRow \/ Ingest

SpecIngest == Init /\ [][NextIngest]_vars

(* ------------- load_data on a file and on its rows reordered ------------ *)

\* The rows of the file: a question naming its asker behind '@', two
\* responses to it in the same second and one second later, a question by
\* the user '.', the first question in another channel, a question whose
\* asker's name does not compile.
ShuffleRows ==
    { [workspace |-> "pythondev", channel |-> "chA", ts |-> 0,
       user |-> NameAl, text |-> <<"@", "A", "L", "?">>],
      [workspace |-> "pythondev", channel |-> "chA", ts |-> 0,
       user |-> NameBo, text |-> <<"@", "a", "l", ".">>],
      [workspace |-> "pythondev", channel |-> "chA", ts |-> 1,
       user |-> NameBo, text |-> <<"@", "a", "l", ".">>],
      [workspace |-> "pythondev", channel |-> "chA", ts |-> 0,
       user |-> NameDot, text |-> <<"o", "k", "?">>],
      [workspace |-> "pythondev", channel |-> "chB", ts |-> 0,
       user |-> NameAl, text |-> <<"@", "A", "L", "?">>],
      [workspace |-> "pythondev", channel |-> "chA", ts |-> 1,
       user |-> NameParen, text |-> <<"?">>] }

\* The orders n rows can be written in: p[i] is the row of the file that
\* stands at place i.
Orders(n) == {p \in [1..n -> 1..n] : \A i, j \in 1..n : p[i] = p[j] => i = j}

\* The rows of t in the order p.
Reordered(t, p) == [i \in 1..Len(p) |-> t[p[i]]]

\* load_data(path) on the rows t: how it ends and the frame it returns.
LoadResult(t) ==
    IF DetectorRaises(Enrich(t))
    THEN [status |-> "raised", df |-> <<>>]
    ELSE [status |-> "loaded", df |-> LoadData(t)]

\* One more row in the file.
AddShuffleRow ==
    /\ status = "input"
    /\ Len(table) < MaxShuffled
    /\ \E r \in ShuffleRows : table' = Append(table, r)
    /\ UNCHANGED <<df, status>>
    /\ UNCHANGED exceptLoader

\* load_data(path) on the file, and load_data(path) on a file that holds
\* the same rows in another order.
LoadBoth ==
    /\ status = "input"
    /\ LET res == LoadResult(table)
       IN  /\ status' = res.status
           /\ df' = IF res.status = "loaded" THEN res.df ELSE df
    /\ \E p \in Orders(Len(table)) :
          LET res == LoadResult(Reordered(table, p))
          IN  shuffle' = [perm |-> p, status |-> res.status, df |-> res.df]
    /\ UNCHANGED table
    /\ UNCHANGED <<personaVars, textVars, fileVars, scoreVars, outVars, appVars,
                   mergeVars, taskVars>>

NextShuffle == AddShuffleRow \/ LoadBoth

SpecShuffle == Init /\ [][NextShuffle]_vars

(* --------------------------- get_user_persona --------------------------- *)

\* advocate_keywords and learner_keywords, in list order.
AdvocateKeywords ==
    << <<"f","e","a","t","u","r","e">>, <<"r","o","a","d","m","a","p">>,
       <<"b","u","g">>, <<"r","e","l","e","a","s","e">>,
       <<"u","p","d","a","t","e">>, <<"s","u","g","g","e","s","t","i","o","n">>,
       <<"p","l","z">>, <<"p","l","e","a","s","e">>, <<"a","d","d">> >>

LearnerKeywords ==
    << <<"h","o","w">>, <<"w","h","y">>, <<"h","e","l","p">>,
       <<"e","r","r","o","r">>, <<"q","u","e","s","t","i","o","n">>,
       <<"f","a","i","l">>, <<"i","s","s","u","e">>,
       <<"p","r","o","b","l","e","m">> >>

\* str.lower() on a text.
Lower(text) == [i \in 1..Len(text) |-> LowerChar(text[i])]

\* " ".join(messages_series.str.lower())
RECURSIVE JoinLower(_)
JoinLower(ms) ==
    IF ms = <<>> THEN <<>>
    ELSE IF Len(ms) = 1 THEN Lower(ms[1].text)
    ELSE JoinLower(SubSeq(ms, 1, Len(ms) - 1)) \o <<" ">> \o Lower(ms[Len(ms)].text)

\* w occurs in s at position i.
OccursAt(s, w, i) ==
    /\ s[i] = w[1]
    /\ i + Len(w) - 1 <= Len(s)
    /\ \A k \in 2..Len(w) : s[i + k - 1] = w[k]

\* str.count(w): the occurrences of w in s found by scanning from position i,
\* each search resuming behind the occurrence found last (non-overlapping).
\* starts holds the positions of s where some keyword's first character
\* stands; no occurrence begins elsewhere.
RECURSIVE CountFrom(_, _, _, _)
CountFrom(s, w, i, starts) ==
    LET found == {j \in starts : j >= i /\ OccursAt(s, w, j)}
    IN  IF found = {} THEN 0
        ELSE LET first == CHOOSE j \in found : \A h \in found : j <= h
             IN  1 + CountFrom(s, w, first + Len(w), starts)

RECURSIVE SumCounts(_, _, _)
SumCounts(corpus, kws, starts) ==
    IF kws = <<>> THEN 0
    ELSE CountFrom(corpus, kws[1], 1, starts)
            + SumCounts(corpus, SubSeq(kws, 2, Len(kws)), starts)

\* sum(text_corpus.count(w) for w in keywords)
KeywordHits(corpus, kws) ==
    LET initials == {kws[k][1] : k \in 1..Len(kws)}
        starts == {j \in 1..Len(corpus) : corpus[j] \in initials}
    IN  SumCounts(corpus, kws, starts)

\* messages_series.str.len().sum(); avg_len is this over total_msgs.
RECURSIVE SumLen(_)
SumLen(ms) ==
    IF ms = <<>> THEN 0 ELSE Len(ms[1].text) + SumLen(SubSeq(ms, 2, Len(ms)))

\* Number of rows with is_question; question_ratio is this over total_msgs.
CountQuestions(ms) == Cardinality({i \in 1..Len(ms) : ms[i].is_question})

\* Number of rows typed low engagement; low_engagement_ratio is this over
\* total_msgs.
CountLow(ms) == Cardinality({i \in 1..Len(ms) : ms[i].mtype = LowEngagement})

\* The keys of the scores dict in insertion order.
PersonaOrder ==
    <<"Feature Advocate", "Active Learner", "Expert Contributor", "Social Connector">>

\* The scores are rationals with denominator 10 * total_msgs^2; the model
\* carries their numerators over that denominator.
ScoreDen(n) == 10 * n * n

\* Faulty variant of Scores: the expert score is not scaled by the share of
\* messages that are no questions.
ScoresNoPenalty(ms) ==
    LET n == Len(ms)
        corpus == JoinLower(ms)
        q == CountQuestions(ms)
    IN  [ x \in {PersonaOrder[i] : i \in 1..4} |->
            CASE x = "Feature Advocate" -> 200 * KeywordHits(corpus, AdvocateKeywords) * n
              [] x = "Active Learner" ->
                    100 * q * n + 100 * KeywordHits(corpus, LearnerKeywords) * n
              [] x = "Expert Contributor" -> SumLen(ms) * n
              [] x = "Social Connector" -> 150 * CountLow(ms) * n ]

\* scores[...]: hits / n * 20, q/n * 10 + hits / n * 10,
\* (avg_len / 50) * 5 * (1 - q/n), low/n * 15, each times ScoreDen(n).
Scores(ms) ==
    LET n == Len(ms)
        corpus == JoinLower(ms)
        q == CountQuestions(ms)
    IN  [ x \in {PersonaOrder[i] : i \in 1..4} |->
            CASE x = "Feature Advocate" -> 200 * KeywordHits(corpus, AdvocateKeywords) * n
              [] x = "Active Learner" ->
                    100 * q * n + 100 * KeywordHits(corpus, LearnerKeywords) * n
              [] x = "Expert Contributor" -> SumLen(ms) * (n - q)
              [] x = "Social Connector" -> 150 * CountLow(ms) * n ]

\* Faulty variant of BestPersona: among equal maxima the last key wins.
BestPersonaLastMax(sc) ==
    PersonaOrder[CHOOSE i \in 1..4 :
        /\ \A j \in 1..4 : sc[PersonaOrder[j]] <= sc[PersonaOrder[i]]
        /\ \A j \in (i + 1)..4 : sc[PersonaOrder[j]] < sc[PersonaOrder[i]]]

\* max(scores, key=scores.get): the first key, in insertion order, whose
\* score no other exceeds.
BestPersona(sc) ==
    PersonaOrder[CHOOSE i \in 1..4 :
        /\ \A j \in 1..4 : sc[PersonaOrder[j]] <= sc[PersonaOrder[i]]
        /\ \A j \in 1..(i - 1) : sc[PersonaOrder[j]] < sc[PersonaOrder[i]]]

\* sum(scores.values())
TotalScore(sc) ==
    sc[PersonaOrder[1]] + sc[PersonaOrder[2]] + sc[PersonaOrder[3]] + sc[PersonaOrder[4]]

\* Faulty variant of Confidence: the cap at 0.95 is left out.
ConfidenceUncapped(max_score, total_score) ==
    IF total_score > 0 THEN [num |-> max_score, den |-> total_score]
    ELSE [num |-> 0, den |-> 1]

\* confidence = max_score / total_score if total_score > 0 else 0.0, then
\* min(confidence, 0.95); a fraction num / den.
Confidence(max_score, total_score) ==
    IF total_score > 0
    THEN IF 20 * max_score <= 19 * total_score
         THEN [num |-> max_score, den |-> total_score]
         ELSE [num |-> 19, den |-> 20]
    ELSE [num |-> 0, den |-> 1]

\* descriptions[best_persona]
Descriptions(label) ==
    CASE label = "Expert Contributor" -> "Initiates complex discussions, detailed solutions."
      [] label = "Active Learner" -> "Frequently asks questions, uses community as resource."
      [] label = "Feature Advocate" -> "Discusses roadmap, suggests features, critical of updates."
      [] label = "Social Connector" -> "Socializes, welcomes members, uses emojis."
      [] OTHER -> "Low participation."

\* Faulty variant of IsPassive: the boundary message count is taken as passive too.
IsPassiveInclusive(total_msgs) == total_msgs <= 5

\* Rule 1: total_msgs < 5.
IsPassive(total_msgs) == total_msgs < 5

\* get_user_persona(metrics_df, messages_series); ms[i] holds messages_series[i]
\* as text and row i of metrics_df as is_question and mtype.
GetUserPersona(ms) ==
    IF IsPassive(Len(ms))
    THEN [label |-> "Passive Reader/Lurker",
          confidence |-> [num |-> 1, den |-> 1],
          description |-> "Extremely low message count."]
    ELSE LET sc == Scores(ms)
             best == BestPersona(sc)
         IN  [label |-> best,
              confidence |-> Confidence(sc[best], TotalScore(sc)),
              description |-> Descriptions(best)]

\* Fifty characters in ten words, no keyword, no '?'.
LongText == [i \in 1..50 |-> IF i % 5 = 0 THEN " " ELSE "x"]

\* Fifty characters, a learner keyword first and '?' last.
LongQuestion ==
    <<"H", "o", "w", " ">> \o [i \in 1..45 |-> IF i % 5 = 0 THEN " " ELSE "x"] \o <<"?">>

\* Fifty characters in one word.
LongWord == [i \in 1..50 |-> "x"]

\* (text, is_question, Message Type) rows get_user_persona may be handed.
PersonaInputs ==
    { [text |-> <<>>,                 is_question |-> FALSE, mtype |-> MediumEngagement],
      [text |-> <<"A", "d", "d">>,    is_question |-> FALSE, mtype |-> LowEngagement],
      [text |-> LongText,             is_question |-> FALSE, mtype |-> MediumEngagement],
      [text |-> LongQuestion,         is_question |-> TRUE,  mtype |-> HighEngagement],
      [text |-> LongWord,             is_question |-> FALSE, mtype |-> LowEngagement] }

\* One more message of the user.
AddMessage ==
    /\ pstatus = "input"
    /\ Len(msgs) < MaxMsgs
    /\ \E m \in PersonaInputs : msgs' = Append(msgs, m)
    /\ UNCHANGED <<persona, pstatus>>
    /\ UNCHANGED exceptPersona

\* get_user_persona on the user's messages.
Classify ==
    /\ pstatus = "input"
    /\ persona' = GetUserPersona(msgs)
    /\ pstatus' = "classified"
    /\ UNCHANGED msgs
    /\ UNCHANGED exceptPersona

NextPersona == AddMessage \/ Classify

SpecPersona == Init /\ [][NextPersona]_vars

(* ------------ get_user_persona on eight questions and two answers ------- *)

\* Faulty variant of MessageOf: the rule for texts of at most three words is
\* left out of the Message Type.
MessageOfNoShortRule(text) ==
    [text |-> text, is_question |-> IsQuestion(text),
     mtype |-> IF Len(text) > 100 \/ IsQuestion(text)
               THEN HighEngagement ELSE MediumEngagement]

\* The row of metrics_df load_data derives from a text.
MessageOf(text) ==
    [text |-> text, is_question |-> IsQuestion(text), mtype |-> CategorizeMessage(text)]

\* Questions with a learner keyword: one word, four words, and one that
\* holds the advocacy keyword 'add' as well.
ScenarioQuestions ==
    << <<"h","o","w","?">>,
       <<"W","h","y"," ","a"," ","b"," ","c","?">>,
       <<"h","o","w"," ","a","d","d","?">> >>

\* The lengths of the long messages: just long, and two around the point
\* where the ten messages total 8000 characters.
LongLengths == <<101, 3984, 4100>>

\* A long message of n characters in words of four: no '?', no keyword.
LongMessage(n) == [i \in 1..n |-> IF i % 5 = 0 THEN " " ELSE "x"]

\* One more question of the user; the questions come in the order of
\* ScenarioQuestions, which the scores do not depend on.
AddQuestion ==
    /\ pstatus = "input"
    /\ Len(msgs) < 8
    /\ \E k \in 1..Len(ScenarioQuestions) :
          /\ \A j \in (k + 1)..Len(ScenarioQuestions) :
                \A i \in 1..Len(msgs) : msgs[i].text # ScenarioQuestions[j]
          /\ msgs' = Append(msgs, MessageOf(ScenarioQuestions[k]))
    /\ UNCHANGED <<persona, pstatus>>
    /\ UNCHANGED exceptPersona

\* One more long message of the user, after the eight questions.
AddLongMessage ==
    /\ pstatus = "input"
    /\ Len(msgs) >= 8
    /\ Len(msgs) < 10
    /\ \E k \in 1..Len(LongLengths) :
          /\ \A i \in 9..Len(msgs) : Len(msgs[i].text) <= LongLengths[k]
          /\ msgs' = Append(msgs, MessageOf(LongMessage(LongLengths[k])))
    /\ UNCHANGED <<persona, pstatus>>
    /\ UNCHANGED exceptPersona

\* get_user_persona on the ten messages.
ClassifyScenario ==
    /\ pstatus = "input"
    /\ Len(msgs) = 10
    /\ persona' = GetUserPersona(msgs)
    /\ pstatus' = "classified"
    /\ UNCHANGED msgs
    /\ UNCHANGED exceptPersona

NextScenario == AddQuestion \/ AddLongMessage \/ ClassifyScenario

SpecScenario == Init /\ [][NextScenario]_vars

(* ------- get_user_persona on the rows load_data derives from texts ------ *)

\* The texts of one user: empty, a lone '?', four words, four words asking,
\* an advocacy keyword in one word, a long question with a learner keyword,
\* and fifty characters in ten words.
DerivedTexts ==
    << <<>>,
       <<"?">>,
       <<"a"," ","b"," ","c"," ","d">>,
       <<"a"," ","b"," ","c"," ","d","?">>,
       <<"A","d","d">>,
       LongQuestion,
       LongText >>

\* One more message of the user, its is_question and Message Type derived
\* from its text; the texts come in the order of DerivedTexts, which the
\* scores do not depend on.
AddDerivedMessage ==
    /\ pstatus = "input"
    /\ Len(msgs) < MaxMsgs
    /\ \E k \in 1..Len(DerivedTexts) :
          /\ \A j \in (k + 1)..Len(DerivedTexts) :
                \A i \in 1..Len(msgs) : msgs[i].text # DerivedTexts[j]
          /\ msgs' = Append(msgs, MessageOf(DerivedTexts[k]))
    /\ UNCHANGED <<persona, pstatus>>
    /\ UNCHANGED exceptPersona

\* get_user_persona(user_df, user_df['sentences']) on the user's rows.
ClassifyDerived ==
    /\ pstatus = "input"
    /\ persona' = GetUserPersona(msgs)
    /\ pstatus' = "classified"
    /\ UNCHANGED msgs
    /\ UNCHANGED exceptPersona

NextDerived == AddDerivedMessage \/ ClassifyDerived

SpecDerived == Init /\ [][NextDerived]_vars

(* ------------------- categorize_message on its own ---------------------- *)

\* The pieces texts are put together from: a letter, a blank, a tab, a
\* question mark and fifty characters in ten words.
Pieces == { <<"x">>, <<" ">>, <<"\t">>, <<"?">>, LongText }

\* The text the pieces spell.
RECURSIVE Concat(_)
Concat(parts) ==
    IF parts = <<>> THEN <<>>
    ELSE Concat(SubSeq(parts, 1, Len(parts) - 1)) \o parts[Len(parts)]

\* One more piece of the text.
AddPiece ==
    /\ clabel = ""
    /\ Len(cparts) < MaxPieces
    /\ \E p \in Pieces : cparts' = Append(cparts, p)
    /\ UNCHANGED clabel
    /\ UNCHANGED exceptText

\* categorize_message(text)
Categorize ==
    /\ clabel = ""
    /\ clabel' = CategorizeMessage(Concat(cparts))
    /\ UNCHANGED cparts
    /\ UNCHANGED exceptText

NextCategorize == AddPiece \/ Categorize

SpecCategorize == Init /\ [][NextCategorize]_vars

(* -------------------------- get_sentiment_score ------------------------- *)

\* The polarities TextBlob may report, in tenths: -10 is -1.0, 10 is 1.0.
Polarities == -10..10

\* Faulty variant of Bucket: the upper bounds are exclusive.
BucketExclusive(polarity) ==
    IF polarity < -6 THEN 1
    ELSE IF polarity < -2 THEN 2
    ELSE IF polarity < 2 THEN 3
    ELSE IF polarity < 6 THEN 4
    ELSE 5

\* The if/elif chain of get_sentiment_score on a polarity in tenths.
Bucket(polarity) ==
    IF polarity <= -6 THEN 1
    ELSE IF polarity <= -2 THEN 2
    ELSE IF polarity <= 2 THEN 3
    ELSE IF polarity <= 6 THEN 4
    ELSE 5

\* get_sentiment_score(text) for a text whose polarity TextBlob reports as p.
ScoreMessage ==
    /\ Cardinality(scored) < MaxScored
    /\ \E p \in Polarities :
          /\ \A s \in scored : s.polarity # p
          /\ scored' = scored \cup {[polarity |-> p, bucket |-> Bucket(p)]}
    /\ UNCHANGED exceptScore

NextScore == ScoreMessage

SpecScore == Init /\ [][NextScore]_vars

(* ------------------------------ trello_utils ---------------------------- *)

\* What a function hands back: a return value (ok, reason), or an exception
\* that leaves it.
Returned(ok, reason) == [kind |-> "returned", ok |-> ok, reason |-> reason]
Raised == [kind |-> "raised", ok |-> FALSE, reason |-> ""]

\* One request and what came back.
Request(endpoint, response) == [endpoint |-> endpoint, response |-> response]

\* What comes back from a request: requests raises (no connection, or a
\* body that is no JSON), or a status with a body; ok is the "ok" field
\* of a Slack body, items the boards, lists, members or channels listed.
Failure == [kind |-> "exception", status |-> 0, ok |-> FALSE, items |-> <<>>]
Http(code, ok, items) == [kind |-> "http", status |-> code, ok |-> ok, items |-> items]

\* An entry of a listing.
Item(name, id, closed) == [name |-> name, id |-> id, closed |-> closed]

\* None, as get_board_id and the others return it for the id.
None == "None"

\* if not board_id / if not list_id / if not user_id
Falsy(id) == id = None \/ id = ""

\* board_name_preference, and the list name add_trello_task asks for.
BoardNamePreference ==
    << <<"C","o","m","m","u","n","l","y","t","i","c","s">>,
       <<"P","e","r","s","o","n","a","l">>,
       <<"T","o"," ","D","o">> >>
ListName == <<"T","o","d","a","y">>

\* The answers of GET /members/me/boards: no answer, a refusal, no board,
\* a closed board only, and a listing whose second board has a preferred name.
BoardResponses ==
    { Failure,
      Http(401, FALSE, <<>>),
      Http(200, FALSE, <<>>),
      Http(200, FALSE, << Item(<<"O","l","d">>, "b0", TRUE) >>),
      Http(200, FALSE, << Item(<<"W","o","r","k">>, "b1", FALSE),
                          Item(<<"P","E","R","S","O","N","A","L">>, "b2", FALSE) >>),
      Http(200, FALSE, << Item(<<"O","l","d">>, "b0", TRUE),
                          Item(<<"W","o","r","k">>, "b1", FALSE) >>) }

\* The answers of GET /boards/{id}/lists.
ListResponses ==
    { Failure,
      Http(404, FALSE, <<>>),
      Http(200, FALSE, <<>>),
      Http(200, FALSE, << Item(<<"I","n","b","o","x">>, "l1", FALSE),
                          Item(<<"t","o","d","a","y">>, "l2", FALSE) >>),
      Http(200, FALSE, << Item(<<"I","n","b","o","x">>, "l1", FALSE) >>) }

\* The answers of POST /cards.
CardResponses == { Failure, Http(400, FALSE, <<>>), Http(200, FALSE, <<>>) }

\* The id of the first entry, in listing order, among those at the
\* positions hits; None if there is none.
FirstOf(items, hits) ==
    IF hits = {} THEN None
    ELSE items[CHOOSE i \in hits : \A j \in hits : i <= j].id

\* get_board_id(): (board id, err), or the exception of requests.get.
GetBoardId(r) ==
    IF r.kind = "exception" THEN [raised |-> TRUE, id |-> None, err |-> ""]
    ELSE IF r.status # 200
    THEN [raised |-> FALSE, id |-> None, err |-> "Failed to fetch boards"]
    ELSE IF r.items = <<>>
    THEN [raised |-> FALSE, id |-> None, err |-> "No boards found."]
    ELSE LET byName == [k \in 1..Len(BoardNamePreference) |->
                          FirstOf(r.items, {i \in 1..Len(r.items) :
                              /\ Lower(r.items[i].name) = Lower(BoardNamePreference[k])
                              /\ ~ r.items[i].closed})]
             named == {k \in 1..Len(BoardNamePreference) : byName[k] # None}
             open == FirstOf(r.items, {i \in 1..Len(r.items) : ~ r.items[i].closed})
         IN  IF named # {}
             THEN [raised |-> FALSE, err |-> "",
                   id |-> byName[CHOOSE k \in named : \A j \in named : k <= j]]
             ELSE IF open # None THEN [raised |-> FALSE, id |-> open, err |-> ""]
             ELSE [raised |-> FALSE, id |-> None, err |-> "No open boards available."]

\* get_list_id(board_id, "Today"): (list id, err), or the exception.
GetListId(r) ==
    IF r.kind = "exception" THEN [raised |-> TRUE, id |-> None, err |-> ""]
    ELSE IF r.status # 200
    THEN [raised |-> FALSE, id |-> None, err |-> "Failed to fetch lists"]
    ELSE IF r.items = <<>>
    THEN [raised |-> FALSE, id |-> None, err |-> "No lists on this board."]
    ELSE LET exact == FirstOf(r.items, {i \in 1..Len(r.items) :
                                            Lower(r.items[i].name) = Lower(ListName)})
         IN  [raised |-> FALSE, err |-> "",
              id |-> IF exact # None THEN exact ELSE r.items[1].id]

\* create_card(list_id, name, desc): (success, result), or the exception.
CreateCard(r) ==
    IF r.kind = "exception" THEN [raised |-> TRUE, ok |-> FALSE]
    ELSE [raised |-> FALSE, ok |-> (r.status = 200)]

\* Faulty variant of AddTrelloTask: the board is looked up before the
\* credentials are checked.
AddTrelloTaskLookupFirst(e, rb, rl, rc) ==
    LET board == GetBoardId(rb)
        lst == GetListId(rl)
        card == CreateCard(rc)
        q1 == << Request("GET /members/me/boards", rb) >>
        q2 == Append(q1, Request("GET /boards/{id}/lists", rl))
        q3 == Append(q2, Request("POST /cards", rc))
        Call(requests, result) ==
            [fn |-> "add_trello_task", requests |-> requests, result |-> result]
    IN  IF board.raised THEN Call(q1, Raised)
        ELSE IF e.key = "" \/ e.token = ""
        THEN Call(q1, Returned(FALSE, "Missing Trello Credentials in .env"))
        ELSE IF Falsy(board.id) THEN Call(q1, Returned(FALSE, "Board Error"))
        ELSE IF lst.raised THEN Call(q2, Raised)
        ELSE IF Falsy(lst.id) THEN Call(q2, Returned(FALSE, "List Error"))
        ELSE IF card.raised THEN Call(q3, Raised)
        ELSE IF card.ok THEN Call(q3, Returned(TRUE, "Card created successfully!"))
        ELSE Call(q3, Returned(FALSE, "API Error"))

\* add_trello_task(user_name, question_text, note_text) under the
\* credentials e, the three requests answered by rb, rl and rc if made.
AddTrelloTask(e, rb, rl, rc) ==
    LET board == GetBoardId(rb)
        lst == GetListId(rl)
        card == CreateCard(rc)
        q1 == << Request("GET /members/me/boards", rb) >>
        q2 == Append(q1, Request("GET /boards/{id}/lists", rl))
        q3 == Append(q2, Request("POST /cards", rc))
        Call(requests, result) ==
            [fn |-> "add_trello_task", requests |-> requests, result |-> result]
    IN  IF e.key = "" \/ e.token = ""
        THEN Call(<<>>, Returned(FALSE, "Missing Trello Credentials in .env"))
        ELSE IF board.raised THEN Call(q1, Raised)
        ELSE IF Falsy(board.id) THEN Call(q1, Returned(FALSE, "Board Error"))
        ELSE IF lst.raised THEN Call(q2, Raised)
        ELSE IF Falsy(lst.id) THEN Call(q2, Returned(FALSE, "List Error"))
        ELSE IF card.raised THEN Call(q3, Raised)
        ELSE IF card.ok THEN Call(q3, Returned(TRUE, "Card created successfully!"))
        ELSE Call(q3, Returned(FALSE, "API Error"))

(* ------------------------------ slack_utils ----------------------------- *)

\* The handle and the channel the dashboard passes.
TargetHandle == <<"r","a","n","o">>
TargetChannel == <<"#","t","e","s","t">>

\* channel_name.lstrip('#')
RECURSIVE LStripHash(_)
LStripHash(name) ==
    IF name # <<>> /\ name[1] = "#" THEN LStripHash(SubSeq(name, 2, Len(name)))
    ELSE name

\* The answers of GET users.list: no answer, a refusal, a Slack error, no
\* member, and a listing with a deleted and a live member of the name.
UserResponses ==
    { Failure,
      Http(500, FALSE, <<>>),
      Http(200, FALSE, <<>>),
      Http(200, TRUE, <<>>),
      Http(200, TRUE, << Item(<<"r","a","n","o">>, "U0", TRUE),
                         Item(<<"R","a","n","o">>, "U1", FALSE) >>) }

\* The answers of POST conversations.open: the last has no channel in it.
OpenResponses ==
    { Failure,
      Http(200, FALSE, <<>>),
      Http(200, TRUE, << Item(<<>>, "D1", FALSE) >>),
      Http(200, TRUE, <<>>) }

\* The answers of POST chat.postMessage.
PostResponses == { Failure, Http(200, FALSE, <<>>), Http(200, TRUE, <<>>) }

\* The answers of GET conversations.list.
ChannelResponses ==
    { Failure,
      Http(200, FALSE, <<>>),
      Http(200, TRUE, << Item(<<"d","e","v">>, "C0", FALSE) >>),
      Http(200, TRUE, << Item(<<"d","e","v">>, "C0", FALSE),
                         Item(<<"T","e","s","t">>, "C1", FALSE) >>) }

\* find_user_id(query_name): (user id, err); every exception is caught.
\* Of the three name fields only "name" is modelled.
FindUserId(r, query_name) ==
    IF r.kind = "exception" THEN [id |-> None, err |-> "str(e)"]
    ELSE IF r.status # 200 THEN [id |-> None, err |-> "API Error"]
    ELSE IF ~ r.ok THEN [id |-> None, err |-> "Slack Error"]
    ELSE LET found == FirstOf(r.items, {i \in 1..Len(r.items) :
                          /\ ~ r.items[i].closed
                          /\ Lower(r.items[i].name) = Lower(query_name)})
         IN  IF found # None THEN [id |-> found, err |-> ""]
             ELSE [id |-> None, err |-> "User not found."]

\* send_dm(user_id, text): the requests made and (ok, reason); every
\* exception is caught, the KeyError of a body without a channel included.
SendDm(ro, rp) ==
    LET q1 == << Request("POST conversations.open", ro) >>
        q2 == Append(q1, Request("POST chat.postMessage", rp))
    IN  IF ro.kind = "exception" THEN [requests |-> q1, result |-> Returned(FALSE, "str(e)")]
        ELSE IF ~ ro.ok
        THEN [requests |-> q1, result |-> Returned(FALSE, "Failed to open DM")]
        ELSE IF ro.items = <<>>
        THEN [requests |-> q1, result |-> Returned(FALSE, "str(e)")]
        ELSE IF rp.kind = "exception"
        THEN [requests |-> q2, result |-> Returned(FALSE, "str(e)")]
        ELSE IF rp.ok
        THEN [requests |-> q2, result |-> Returned(TRUE, "Message sent successfully!")]
        ELSE [requests |-> q2, result |-> Returned(FALSE, "Failed to send")]

\* send_private_reply(target_handle, original_asker_name, reply_text)
SendPrivateReply(e, target_handle, ru, ro, rp) ==
    LET user == FindUserId(ru, target_handle)
        q0 == << Request("GET users.list", ru) >>
        dm == SendDm(ro, rp)
        Call(requests, result) ==
            [fn |-> "send_private_reply", requests |-> requests, result |-> result]
    IN  IF e.slack = ""
        THEN Call(<<>>, Returned(FALSE, "Missing SLACK_BOT_TOKEN in .env"))
        ELSE IF Falsy(user.id) THEN Call(q0, Returned(FALSE, user.err))
        ELSE Call(q0 \o dm.requests, dm.result)

\* find_channel_id(channel_name): (channel id, err); every exception is
\* caught.
FindChannelId(r, channel_name) ==
    IF r.kind = "exception" THEN [id |-> None, err |-> "str(e)"]
    ELSE IF ~ r.ok THEN [id |-> None, err |-> "Slack Error"]
    ELSE LET query == Lower(LStripHash(channel_name))
             found == FirstOf(r.items, {i \in 1..Len(r.items) :
                                           Lower(r.items[i].name) = query})
         IN  IF found # None THEN [id |-> found, err |-> ""]
             ELSE [id |-> None, err |-> "Channel not found."]

\* send_channel_reply(channel_name, reply_text)
SendChannelReply(e, channel_name, rc, rp) ==
    LET channel == FindChannelId(rc, channel_name)
        q1 == << Request("GET conversations.list", rc) >>
        q2 == Append(q1, Request("POST chat.postMessage", rp))
        Call(requests, result) ==
            [fn |-> "send_channel_reply", requests |-> requests, result |-> result]
    IN  IF e.slack = ""
        THEN Call(<<>>, Returned(FALSE, "Missing SLACK_BOT_TOKEN in .env"))
        ELSE IF Falsy(channel.id) THEN Call(q1, Returned(FALSE, channel.err))
        ELSE IF rp.kind = "exception" THEN Call(q2, Returned(FALSE, "str(e)"))
        ELSE IF rp.ok THEN Call(q2, Returned(TRUE, "Posted to channel!"))
        ELSE Call(q2, Returned(FALSE, "Failed to post"))

(* --------------------- the outbound calls on their own ------------------ *)

\* load_dotenv() and os.getenv at import: each credential set or not.
LoadEnv ==
    /\ ~ env.loaded
    /\ \E k \in {"", "key"}, t \in {"", "token"}, b \in {"", "xoxb"} :
          env' = [loaded |-> TRUE, key |-> k, token |-> t, slack |-> b]
    /\ UNCHANGED lastcall
    /\ UNCHANGED exceptOut

\* add_trello_task(...) called.
CallAddTrelloTask ==
    /\ env.loaded
    /\ \E rb \in BoardResponses, rl \in ListResponses, rc \in CardResponses :
          lastcall' = AddTrelloTask(env, rb, rl, rc)
    /\ UNCHANGED env
    /\ UNCHANGED exceptOut

\* send_private_reply("rano", ...) called.
CallSendPrivateReply ==
    /\ env.loaded
    /\ \E ru \in UserResponses, ro \in OpenResponses, rp \in PostResponses :
          lastcall' = SendPrivateReply(env, TargetHandle, ru, ro, rp)
    /\ UNCHANGED env
    /\ UNCHANGED exceptOut

\* send_channel_reply("#test", ...) called.
CallSendChannelReply ==
    /\ env.loaded
    /\ \E rc \in ChannelResponses, rp \in PostResponses :
          lastcall' = SendChannelReply(env, TargetChannel, rc, rp)
    /\ UNCHANGED env
    /\ UNCHANGED exceptOut

NextOutbound ==
    LoadEnv \/ CallAddTrelloTask \/ CallSendPrivateReply \/ CallSendChannelReply

SpecOutbound == Init /\ [][NextOutbound]_vars

(* ---------------------------- the dashboard ----------------------------- *)

\* The files DATA_PATH may hold: no row; a row whose timestamp does not
\* parse; one open question; a question by a user whose name is no regular
\* expression; two open questions; an unparseable row before an open question.
AppFiles ==
    LET Row(t, u, x) == [workspace |-> "pythondev", channel |-> "chA",
                         timestamp |-> t, user |-> u, text |-> x]
    IN  { <<>>,
          << Row(<<"x">>, NameAl, <<"?">>) >>,
          << Row(<<"1">>, NameAl, <<"?">>) >>,
          << Row(<<"0">>, NameAl, <<"?">>), Row(<<"1">>, NameParen, <<"?">>) >>,
          << Row(<<"0">>, NameAl, <<"?">>), Row(<<"1">>, NameBo, <<"?">>) >>,
          << Row(<<"x">>, NameAl, <<"?">>), Row(<<"1">>, NameBo, <<"?">>) >> }

\* df = load_data(DATA_PATH) under @st.cache_data: the frame returned
\* before is returned again without reading the file; an exception is not
\* cached.
CachedLoad(file, st, d) ==
    IF st = "loaded" THEN [status |-> "loaded", df |-> d]
    ELSE IF DetectorRaises(Columns(Preprocess(file)))
    THEN [status |-> "raised", df |-> <<>>]
    ELSE [status |-> "loaded", df |-> LoadFile(file)]

\* visible_tasks: the index labels of the unanswered rows, the resolved
\* ones left out.  The workspace and channel filters are at their defaults.
VisibleTasks(d, res) ==
    {d[k].idx : k \in {j \in 1..Len(d) : d[j].is_unanswered}} \ res

\* Faulty variant of ButtonFires: a pressed button runs its handler whatever
\* load_data gave.
ButtonFiresUnloaded(st, d, res, index) == TRUE

\* The button of task index is reached by this run of main and reports the
\* press: load_data returned, the frame is not empty, the task is visible.
ButtonFires(st, d, res, index) ==
    /\ st = "loaded"
    /\ d # <<>>
    /\ index \in VisibleTasks(d, res)

\* Faulty variant of FrameAfter: resolving a task clears its flag.
FrameAfterClearsFlag(d, button, index) ==
    IF button = "Resolve"
    THEN [k \in 1..Len(d) |->
            IF d[k].idx = index THEN [d[k] EXCEPT !.is_unanswered = FALSE] ELSE d[k]]
    ELSE d

\* The frame after the handler of a button ran: no handler assigns to it.
FrameAfter(d, button, index) == d

\* st.session_state['resolved_tasks'].add(index)
ResolveTask(res, index) == res \cup {index}

\* The index labels a button key may carry.
ButtonKeys == {df[k].idx : k \in 1..Len(df)} \cup (1..Len(raw))

\* The file at DATA_PATH is written.
PutFile ==
    /\ \E f \in AppFiles : raw' = f
    /\ UNCHANGED exceptFile

\* A run of main with the button of task index pressed, or with none
\* (button = ""); call is what the handler's outbound function gives.
RunMain(button, index, call) ==
    LET run == CachedLoad(raw, status, df)
        fires == button # "" /\ ButtonFires(run.status, run.df, resolved, index)
        outbound == fires /\ button # "Resolve"
    IN  /\ env.loaded
        /\ status' = run.status
        /\ df' = IF fires THEN FrameAfter(run.df, button, index) ELSE run.df
        /\ resolved' = IF fires /\ button = "Resolve"
                         THEN ResolveTask(resolved, index) ELSE resolved
        /\ lastcall' = IF outbound THEN call ELSE lastcall
        /\ called' = outbound
        /\ UNCHANGED <<table, raw, env>>
        /\ UNCHANGED <<personaVars, textVars, scoreVars, mergeVars, taskVars, shuffleVars>>

\* The page is opened or reloaded.
OpenPage == RunMain("", 0, NoCall)

\* The ways each outbound function can go under the credentials e.
PrivateReplyOutcomes(e) ==
    {SendPrivateReply(e, TargetHandle, ru, ro, rp) :
        ru \in UserResponses, ro \in OpenResponses, rp \in PostResponses}
ChannelReplyOutcomes(e) ==
    {SendChannelReply(e, TargetChannel, rc, rp) :
        rc \in ChannelResponses, rp \in PostResponses}
TrelloTaskOutcomes(e) ==
    {AddTrelloTask(e, rb, rl, rc) :
        rb \in BoardResponses, rl \in ListResponses, rc \in CardResponses}

\* "Private Reply" pressed.
PrivateReply ==
    \E index \in ButtonKeys, call \in PrivateReplyOutcomes(env) :
        RunMain("Private Reply", index, call)

\* "Channel Reply" pressed.
ChannelReply ==
    \E index \in ButtonKeys, call \in ChannelReplyOutcomes(env) :
        RunMain("Channel Reply", index, call)

\* "Trello Task" pressed.
TrelloTask ==
    \E index \in ButtonKeys, call \in TrelloTaskOutcomes(env) :
        RunMain("Trello Task", index, call)

\* "Resolve" pressed; st.rerun() runs main once more.
Resolve == \E index \in ButtonKeys : RunMain("Resolve", index, NoCall)

NextApp ==
    LoadEnv \/ PutFile \/ OpenPage \/ PrivateReply \/ ChannelReply \/ TrelloTask \/ Resolve

SpecApp == Init /\ [][NextApp]_vars

(* ------------------------- the Tasks dashboard -------------------------- *)

\* for index in visible_tasks[:50]
DisplayLimit == 50

\* The files DATA_PATH may hold for the Tasks dashboard: no row; open
\* questions in two workspaces and two channels beside a plain message; and
\* two open questions more than the dashboard displays.
TaskFiles ==
    LET Row(w, c, t, u, x) ==
            [workspace |-> w, channel |-> c, timestamp |-> t, user |-> u, text |-> x]
    IN  { <<>>,
          << Row("pythondev", "chA", <<"0">>, NameAl, <<"?">>),
             Row("reddit", "chB", <<"1">>, NameBo, <<"?">>),
             Row("pythondev", "chB", <<"1">>, NameAl, <<"o","k">>),
             Row("pythondev", "chB", <<"0">>, NameBo, <<"?">>) >>,
          [i \in 1..(DisplayLimit + 2) |->
              Row("pythondev", "chA", <<"1">>, NameAl, <<"?">>)] }

\* df['workspace'].unique() and df_ws['channel'].unique()
AllWorkspaces(d) == {d[k].workspace : k \in 1..Len(d)}
AllChannels(d) == {d[k].channel : k \in 1..Len(d)}

\* df_ws = df[df['workspace'].isin(selected_workspaces)]
FilterWorkspaces(d, ws) == SelectSeq(d, LAMBDA r : r.workspace \in ws)

\* filtered_tasks: the unanswered rows of the selected channels.
FilteredTasks(dws, ch) == SelectSeq(dws, LAMBDA r : r.channel \in ch /\ r.is_unanswered)

\* The rows of f with a timestamp in tss, latest timestamp first, rows of
\* equal timestamp in the order they have in f.
RECURSIVE LatestFirst(_, _)
LatestFirst(f, tss) ==
    IF tss = {} THEN <<>>
    ELSE LET top == CHOOSE t \in tss : \A u \in tss : u <= t
         IN  SelectSeq(f, LAMBDA r : r.ts = top) \o LatestFirst(f, tss \ {top})

\* filtered_tasks.sort_values('ts', ascending=False); rows of equal ts keep
\* their order.
SortByTsDescending(f) == LatestFirst(f, {f[k].ts : k \in 1..Len(f)})

\* Faulty variant of VisibleTaskList: the resolved tasks are not left out.
VisibleTaskListKeepsResolved(f, res) == [k \in 1..Len(f) |-> f[k].idx]

\* visible_tasks = [i for i in filtered_tasks.index if i not in resolved_tasks]
VisibleTaskList(f, res) ==
    LET kept == SelectSeq(f, LAMBDA r : r.idx \notin res)
    IN  [k \in 1..Len(kept) |-> kept[k].idx]

\* visible_tasks[:50]
Displayed(visible) ==
    IF Len(visible) > DisplayLimit THEN SubSeq(visible, 1, DisplayLimit) ELSE visible

\* What a run of main draws in the Tasks dashboard for the frame d, the
\* selected workspaces ws and channels ch and the resolved tasks res; main
\* returns before the list if the frame or a selection is empty.
TasksView(d, ws, ch, res) ==
    IF d = <<>> \/ ws = {} \/ ch = {}
    THEN [workspaces |-> ws, channels |-> ch, tasks |-> <<>>]
    ELSE LET filtered == FilteredTasks(FilterWorkspaces(d, ws), ch)
         IN  [workspaces |-> ws, channels |-> ch,
              tasks |-> Displayed(VisibleTaskList(SortByTsDescending(filtered), res))]

\* The file at DATA_PATH is written before the dashboard first loads it.
WriteTaskFile ==
    /\ status = "input"
    /\ \E f \in TaskFiles : raw' = f
    /\ UNCHANGED exceptFile

\* A run of main on the Tasks dashboard with some workspaces and channels
\* selected in the sidebar.
ShowTasks ==
    LET run == CachedLoad(raw, status, df)
    IN  /\ status' = run.status
        /\ df' = run.df
        /\ \E ws \in SUBSET AllWorkspaces(run.df) :
              \E ch \in SUBSET AllChannels(FilterWorkspaces(run.df, ws)) :
                  view' = TasksView(run.df, ws, ch, resolved)
        /\ UNCHANGED <<table, raw, resolved, called>>
        /\ UNCHANGED <<personaVars, textVars, scoreVars, outVars, mergeVars, shuffleVars>>

\* "Resolve" pressed on a displayed task: the index joins resolved_tasks
\* and st.rerun() draws the dashboard again under the same filters.
ResolveShown ==
    /\ status = "loaded"
    /\ Cardinality(resolved) < MaxResolved
    /\ \E k \in 1..Len(view.tasks) :
          LET res == ResolveTask(resolved, view.tasks[k])
          IN  /\ resolved' = res
              /\ view' = TasksView(df, view.workspaces, view.channels, res)
    /\ UNCHANGED <<table, df, status, raw, called>>
    /\ UNCHANGED <<personaVars, textVars, scoreVars, outVars, mergeVars, shuffleVars>>

NextTasks == WriteTaskFile \/ ShowTasks \/ ResolveShown

SpecTasks == Init /\ [][NextTasks]_vars

(* --------------------------- merge_slack_reddit ------------------------- *)

\* pd.NA in a column, and an empty field of a file.
NA == "<NA>"

\* The rows a Slack CSV may hold: a ts that parses or not, a workspace
\* name or none (the file need not have the column).
SlackRows ==
    {[ts |-> t, workspace |-> w] : t \in {<<"0">>, <<"x">>}, w \in {"pythondev", NA}}

\* The rows a Reddit CSV may hold, as transform_reddit_to_csv writes them:
\* created_utc that parses or not, workspace 'reddit'.
RedditRows ==
    {[created_utc |-> t, workspace |-> "reddit"] : t \in {<<"1">>, <<"x">>}}

\* The shared columns of the rows of one source, the timestamp parsed;
\* origin names the source row and is no column of the frame.  The columns
\* channel, sentences, user and comments are copied through and left out.
SharedSlack(rows) ==
    [i \in 1..Len(rows) |->
        [timestamp |-> ToDatetime(rows[i].ts), workspace |-> rows[i].workspace,
         origin |-> <<"slack", i>>]]
SharedReddit(rows) ==
    [i \in 1..Len(rows) |->
        [timestamp |-> ToDatetime(rows[i].created_utc), workspace |-> rows[i].workspace,
         origin |-> <<"reddit", i>>]]

\* Row a sorts strictly before row b by timestamp, NaT last.
TimestampLess(a, b) ==
    \/ a.timestamp # NaT /\ b.timestamp = NaT
    \/ a.timestamp # NaT /\ b.timestamp # NaT /\ a.timestamp < b.timestamp

\* df_merged.sort_values(by="timestamp"); rows of equal timestamp keep
\* their order.
RECURSIVE SortByTimestamp(_)
SortByTimestamp(f) ==
    IF f = <<>> THEN <<>>
    ELSE LET rest == SortByTimestamp(SubSeq(f, 1, Len(f) - 1))
             r == f[Len(f)]
             n == Cardinality({i \in 1..Len(rest) : ~ TimestampLess(r, rest[i])})
         IN  SubSeq(rest, 1, n) \o <<r>> \o SubSeq(rest, n + 1, Len(rest))

\* merge_slack_reddit: pd.concat of the shared columns, then the sort.
MergeSlackReddit(s, r) == SortByTimestamp(SharedSlack(s) \o SharedReddit(r))

\* One more row in the Slack CSV.
AddSlackRow ==
    /\ mstatus = "input"
    /\ Len(slackcsv) < MaxSource
    /\ \E row \in SlackRows : slackcsv' = Append(slackcsv, row)
    /\ UNCHANGED <<redditcsv, merged, mstatus>>
    /\ UNCHANGED exceptMerge

\* One more row in the Reddit CSV.
AddRedditRow ==
    /\ mstatus = "input"
    /\ Len(redditcsv) < MaxSource
    /\ \E row \in RedditRows : redditcsv' = Append(redditcsv, row)
    /\ UNCHANGED <<slackcsv, merged, mstatus>>
    /\ UNCHANGED exceptMerge

\* merge_slack_reddit(slack_csv_path, reddit_csv_path, output_csv_path)
Merge ==
    /\ mstatus = "input"
    /\ merged' = MergeSlackReddit(slackcsv, redditcsv)
    /\ mstatus' = "merged"
    /\ UNCHANGED <<slackcsv, redditcsv>>
    /\ UNCHANGED exceptMerge

NextMerge == AddSlackRow \/ AddRedditRow \/ Merge

SpecMerge == Init /\ [][NextMerge]_vars

(* ------------------- the specification's vocabulary --------------------- *)

\* The returned row that carries index label i (the i-th row of the file).
RowOf(i) == df[CHOOSE k \in 1..Len(df) : df[k].idx = i]

Rows == 1..Len(table)

\* Row i of the file is a question: its text contains '?'.
Asks(i) == HasChar(table[i].text, "?")

\* Row j is in the channel of row i, contains '@' and contains the display
\* name of i's author as a case-insensitive substring.
NamesAsker(i, j) ==
    /\ table[j].channel = table[i].channel
    /\ HasChar(table[j].text, "@")
    /\ SubstringIC(table[i].user, table[j].text)

\* T < R.timestamp <= T + 24h
InsideWindow(i, j) ==
    table[i].ts < table[j].ts /\ table[j].ts <= table[i].ts + Day

\* The other rows that would answer i if their time allowed it.
Candidates(i) == {j \in Rows \ {i} : NamesAsker(i, j)}

(* ------------------------------ claims ---------------------------------- *)

\* C1: after load_data, a question is answered (is_unanswered false) iff some
\* message of its channel contains '@', lies in (T, T + 24h] and contains the
\* asker's display name as a case-insensitive substring; otherwise it is
\* unanswered.
C1_AnsweredIffNamedReply ==
    status = "loaded" =>
        \A i \in Rows :
            Asks(i) =>
                (RowOf(i).is_unanswered
                    <=> ~ \E j \in Rows : NamesAsker(i, j) /\ InsideWindow(i, j))

\* C2: in the returned table every message whose text has no '?' has
\* is_unanswered = false (is_unanswered implies is_question in every row).
C2_UnansweredImpliesQuestion ==
    status = "loaded" =>
        \A k \in 1..Len(df) :
            /\ ~ HasChar(df[k].text, "?") => ~ df[k].is_unanswered
            /\ df[k].is_unanswered => df[k].is_question

\* A returned table holding a flagged question next to a message that is no
\* question and mentions nobody the window admits.
C2_Witness ==
    /\ status = "loaded"
    /\ \E k \in 1..Len(df) : ~ HasChar(df[k].text, "?") /\ ~ df[k].is_unanswered
    /\ \E k \in 1..Len(df) : df[k].is_unanswered

\* The rows of the file that are in channel c, and the position row i has
\* among the rows of its own channel.
RowsOfChannel(c) == SelectSeq(table, LAMBDA r : r.channel = c)
PositionInChannel(i) ==
    Cardinality({j \in 1..i : table[j].channel = table[i].channel})

\* C3: the detector is channel-scoped.  The flag of every message is the one
\* load_data gives it on a file holding the rows of its own channel only,
\* whatever the other channels hold; and a question whose own channel has no
\* '@' message inside its window is unanswered even when another channel
\* has one.
C3_ChannelScoped ==
    status = "loaded" =>
        /\ \A c \in Channels :
              LET alone == LoadData(RowsOfChannel(c))
              IN  \A i \in Rows :
                    table[i].channel = c =>
                        \E k \in 1..Len(alone) :
                            /\ alone[k].idx = PositionInChannel(i)
                            /\ alone[k].is_unanswered = RowOf(i).is_unanswered
        /\ \A i \in Rows :
              ( /\ Asks(i)
                /\ ~ \E j \in Rows : /\ table[j].channel = table[i].channel
                                     /\ HasChar(table[j].text, "@")
                                     /\ InsideWindow(i, j) )
              => RowOf(i).is_unanswered

\* A question left unanswered although another channel holds, inside its
\* window, an '@' message that contains the asker's name.
C3_Witness ==
    /\ status = "loaded"
    /\ \E i \in Rows, j \in Rows :
          /\ Asks(i)
          /\ table[j].channel # table[i].channel
          /\ HasChar(table[j].text, "@")
          /\ SubstringIC(table[i].user, table[j].text)
          /\ InsideWindow(i, j)
          /\ RowOf(i).is_unanswered

\* C4: the window's upper bound is inclusive.  A question whose only
\* otherwise-qualifying responses (same channel, '@', the asker's name) are at
\* exactly T + 24h is answered; one whose only such responses are at
\* T + 24h + 1s or later is unanswered.
C4_UpperBoundInclusive ==
    status = "loaded" =>
        \A i \in Rows :
            (Asks(i) /\ Candidates(i) # {}) =>
                /\ (\A j \in Candidates(i) : table[j].ts = table[i].ts + Day)
                      => ~ RowOf(i).is_unanswered
                /\ (\A j \in Candidates(i) : table[j].ts > table[i].ts + Day)
                      => RowOf(i).is_unanswered

\* C5: the window's lower bound is exclusive.  A question whose only
\* otherwise-qualifying responses are at its own timestamp or earlier is
\* unanswered.
C5_LowerBoundExclusive ==
    status = "loaded" =>
        \A i \in Rows :
            ( /\ Asks(i)
              /\ Candidates(i) # {}
              /\ \A j \in Candidates(i) : table[j].ts <= table[i].ts )
            => RowOf(i).is_unanswered

\* C6: a self-reply answers.  When the asker posts, in the same channel and
\* inside (T, T + 24h], a message with '@' and the asker's own display name,
\* the question is answered.
C6_SelfReplyAnswers ==
    status = "loaded" =>
        \A i \in Rows :
            ( /\ Asks(i)
              /\ \E j \in Candidates(i) : /\ table[j].user = table[i].user
                                           /\ InsideWindow(i, j) )
            => ~ RowOf(i).is_unanswered

\* C7: the detector never raises, whatever the table and the display names;
\* a channel without questions gets no flag and a channel without '@'
\* messages gets every question flagged.
C7_NeverRaises ==
    /\ status # "raised"
    /\ status = "loaded" =>
          \A c \in Channels :
              LET inC == {i \in Rows : table[i].channel = c}
              IN  /\ (\A i \in inC : ~ Asks(i))
                        => \A i \in inC : ~ RowOf(i).is_unanswered
                  /\ (\A i \in inC : ~ HasChar(table[i].text, "@"))
                        => \A i \in inC : Asks(i) => RowOf(i).is_unanswered

(* --------------------------- persona claims ----------------------------- *)

Labels == {PersonaOrder[i] : i \in 1..4}

\* The four scores as the specification words them, over the denominator
\* 10 * N^2: (advocacy hits / N) * 20, question_ratio * 10 + (learner hits
\* / N) * 10, (average length / 50) * 5 * (1 - question_ratio),
\* low_engagement_ratio * 15.
StatedScore(x) ==
    LET n == Len(msgs)
        corpus == JoinLower(msgs)
        q == CountQuestions(msgs)
    IN  CASE x = "Feature Advocate" -> 200 * n * KeywordHits(corpus, AdvocateKeywords)
          [] x = "Active Learner" -> 100 * n * (q + KeywordHits(corpus, LearnerKeywords))
          [] x = "Expert Contributor" -> SumLen(msgs) * (n - q)
          [] x = "Social Connector" -> 150 * n * CountLow(msgs)

\* Position of a label in the priority order.
Priority(x) == CHOOSE i \in 1..4 : PersonaOrder[i] = x

\* C8: with fewer than 5 messages the result is 'Passive Reader/Lurker' with
\* confidence exactly 1.0 whatever the other features; with 5 or more the
\* label is one of the four scored labels, never 'Passive Reader/Lurker'.
C8_PassiveShortCircuit ==
    pstatus = "classified" =>
        /\ Len(msgs) < 5 =>
              /\ persona.label = "Passive Reader/Lurker"
              /\ persona.confidence.num = persona.confidence.den
        /\ Len(msgs) >= 5 =>
              /\ persona.label \in Labels
              /\ persona.label # "Passive Reader/Lurker"

\* A user with exactly 5 messages, classified by the scoring path.
C8_Witness ==
    /\ pstatus = "classified"
    /\ Len(msgs) = 5
    /\ persona.label \in Labels

\* C9: for N >= 5 the confidence is min(winner_score / sum, 0.95) when the
\* sum of the four scores is positive and 0.0 when it is 0; it lies in
\* [0, 0.95] and is never 1.0.
C9_ConfidenceCapped ==
    (pstatus = "classified" /\ Len(msgs) >= 5) =>
        LET sc == Scores(msgs)
            w == sc[persona.label]
            t == TotalScore(sc)
            c == persona.confidence
        IN  /\ c.den > 0
            /\ t > 0 /\ 20 * w <= 19 * t => c.num * t = w * c.den
            /\ t > 0 /\ 20 * w > 19 * t => 20 * c.num = 19 * c.den
            /\ t = 0 => c.num = 0
            /\ 0 <= c.num
            /\ 20 * c.num <= 19 * c.den
            /\ c.num # c.den

\* A classification whose winner holds more than 95% of the total score, so
\* that the cap decides the confidence.
C9_Witness ==
    /\ pstatus = "classified"
    /\ Len(msgs) >= 5
    /\ LET sc == Scores(msgs)
       IN  /\ TotalScore(sc) > 0
           /\ 20 * sc[persona.label] > 19 * TotalScore(sc)
    /\ 20 * persona.confidence.num = 19 * persona.confidence.den

\* C10: for N >= 5 the returned label has the highest of the four stated
\* scores, and among labels sharing the highest score it is the first in the
\* order Feature Advocate, Active Learner, Expert Contributor, Social
\* Connector, the all-zero case included.
C10_HighestScoreFirstInOrder ==
    (pstatus = "classified" /\ Len(msgs) >= 5) =>
        /\ persona.label \in Labels
        /\ \A x \in Labels :
              /\ StatedScore(x) <= StatedScore(persona.label)
              /\ Priority(x) < Priority(persona.label)
                    => StatedScore(x) < StatedScore(persona.label)

\* A positive highest score shared by the returned label and a later one,
\* the returned label not being the first of the order.
C10_Witness ==
    /\ pstatus = "classified"
    /\ Len(msgs) >= 5
    /\ persona.label # PersonaOrder[1]
    /\ StatedScore(persona.label) > 0
    /\ \E x \in Labels : /\ x # persona.label
                          /\ StatedScore(x) = StatedScore(persona.label)

(* ----------------------- derived features claim ------------------------- *)

\* Every row of the user carries the is_question and Message Type of its text.
FeaturesDerived == \A i \in 1..Len(msgs) : msgs[i] = MessageOf(msgs[i].text)

\* C22: when is_question and Message Type of every row are the ones derived
\* from the row's text, a user with at least 5 messages has four persona
\* scores that are all non-negative and sum to more than zero, and a returned
\* confidence within [0.25, 0.95]; the confidence is never the 0.0 of the
\* zero-total branch.
C22_DerivedScoresPositive ==
    (pstatus = "classified" /\ Len(msgs) >= 5 /\ FeaturesDerived) =>
        LET sc == Scores(msgs)
            c == persona.confidence
        IN  /\ TotalScore(sc) > 0
            /\ \A i \in 1..4 : sc[PersonaOrder[i]] >= 0
            /\ 4 * c.num >= c.den
            /\ 20 * c.num <= 19 * c.den
            /\ c.num # 0

\* A user of five or more messages, every one a question of more than three
\* words: three of the four scores are zero, and the user is classified.
C22_Witness ==
    /\ pstatus = "classified"
    /\ Len(msgs) >= 5
    /\ FeaturesDerived
    /\ CountQuestions(msgs) = Len(msgs)
    /\ CountLow(msgs) = 0
    /\ Cardinality({i \in 1..4 : Scores(msgs)[PersonaOrder[i]] = 0}) = 3

(* ---------------------------- scenario claim ---------------------------- *)

\* Some keyword of the list occurs in the text, letter case aside.
HasKeyword(text, kws) == \E k \in 1..Len(kws) : SubstringIC(kws[k], text)

\* A text of the letter x and blanks only: it holds no '?' and, every
\* keyword having another letter, no keyword.
IsPlain(text) == \A i \in 1..Len(text) : text[i] \in {"x", " "}

\* The messages of the user that hold '?' and a learner keyword.
ScenarioQuestionRows ==
    {i \in 1..Len(msgs) :
        /\ Len(msgs[i].text) <= 100
        /\ HasChar(msgs[i].text, "?")
        /\ HasKeyword(msgs[i].text, LearnerKeywords)}

\* The user of the scenario: ten messages, eight of them with '?' and a
\* learner keyword each, two of them long with no '?' and no keyword.
IsScenarioUser ==
    LET qs == ScenarioQuestionRows
        ls == {i \in 1..Len(msgs) : Len(msgs[i].text) > 100 /\ IsPlain(msgs[i].text)}
    IN  /\ Len(msgs) = 10
        /\ Cardinality(qs) = 8
        /\ Cardinality(ls) = 2

\* The characters of the ten messages together.
TotalLength == SumLen(msgs)

\* C11: a user with exactly 10 messages, 8 of them with '?' and a learner
\* keyword each, 2 of them long with no '?' and no keyword, is classified
\* 'Active Learner' whatever the length of the two long messages.
C11_ScenarioIsActiveLearner ==
    (pstatus = "classified" /\ IsScenarioUser) => persona.label = "Active Learner"

\* C11 as amended: such a user is classified 'Active Learner' if no question
\* holds an advocacy keyword and the ten messages total at most 8000
\* characters.
C11_ScenarioWithinLength ==
    ( /\ pstatus = "classified"
      /\ IsScenarioUser
      /\ \A i \in ScenarioQuestionRows : ~ HasKeyword(msgs[i].text, AdvocateKeywords)
      /\ TotalLength <= 8000 ) => persona.label = "Active Learner"

\* Such a user whose messages total exactly 8000 characters, classified.
C11_Witness ==
    /\ pstatus = "classified"
    /\ IsScenarioUser
    /\ \A i \in ScenarioQuestionRows : ~ HasKeyword(msgs[i].text, AdvocateKeywords)
    /\ TotalLength = 8000
    /\ persona.label = "Active Learner"

(* ------------------------ engagement label claims ----------------------- *)

\* The number of whitespace-separated words of a text, counted at the
\* characters that end a word.
StatedWords(text) ==
    Cardinality({i \in 1..Len(text) :
                    /\ text[i] \notin {" ", "\t", "\n"}
                    /\ (i = Len(text) \/ text[i + 1] \in {" ", "\t", "\n"})})

C13_QuestionsAreHigh ==
    status = "loaded" =>
        \A k \in 1..Len(df) : df[k].is_question => df[k].mtype = HighEngagement

\* C13 as amended: a question of more than 3 words carries the high
\* engagement label, a question of at most 3 words the low engagement label.
C13_QuestionLabelByWords ==
    status = "loaded" =>
        \A k \in 1..Len(df) :
            HasChar(df[k].text, "?") =>
                /\ df[k].is_question
                /\ df[k].mtype = IF StatedWords(df[k].text) > 3
                                 THEN HighEngagement ELSE LowEngagement

\* A returned table with a question of more than 3 words and one of fewer.
C13_Witness ==
    /\ status = "loaded"
    /\ \E k \in 1..Len(df) : df[k].is_question /\ df[k].mtype = HighEngagement
    /\ \E k \in 1..Len(df) : df[k].is_question /\ df[k].mtype = LowEngagement

(* --------------------------- sentiment claims --------------------------- *)

\* The bucket the thresholds -0.6, -0.2, 0.2, 0.6 assign to a polarity in
\* tenths: one more than the number of thresholds strictly below it.
StatedBucket(p) == 1 + Cardinality({t \in {-6, -2, 2, 6} : t < p})

\* C14: for every polarity in [-1, 1] the sentiment bucket is one of 1..5,
\* given by inclusive upper bounds -0.6, -0.2, 0.2, 0.6, and so a higher
\* polarity never receives a strictly lower bucket.
C14_BucketThresholds ==
    /\ \A s \in scored :
          /\ s.bucket \in 1..5
          /\ s.bucket = StatedBucket(s.polarity)
    /\ \A s, t \in scored : s.polarity <= t.polarity => s.bucket <= t.bucket

\* Two scored polarities on the thresholds -0.6 and 0.6.
C14_Witness ==
    /\ [polarity |-> -6, bucket |-> 1] \in scored
    /\ [polarity |-> 6, bucket |-> 4] \in scored

(* ------------------------- preprocessing claims ------------------------- *)

\* C15: for every input table load_data raises no error and returns exactly
\* the rows whose timestamp parses; in every returned row the timestamp is
\* not null, the text is a string that is not null, and the user is not
\* null, 'Anonymous' standing for a missing one.
C15_KeepsParseableRows ==
    status # "input" =>
        /\ status = "loaded"
        /\ {df[k].idx : k \in 1..Len(df)} =
              {i \in 1..Len(raw) : raw[i].timestamp \in {<<"0">>, <<"1">>}}
        /\ Len(df) = Cardinality({df[k].idx : k \in 1..Len(df)})
        /\ \A k \in 1..Len(df) :
              /\ df[k].ts # NaT
              /\ df[k].text # NoValue
              /\ df[k].user # NoValue
              /\ raw[df[k].idx].user = NoValue => df[k].user = Anonymous

(* ---------------------------- outbound claims --------------------------- *)

\* A request that met a network or API failure: no answer, a status other
\* than 200, or a Slack body that reports ok = false.
RequestFailed(q) ==
    \/ q.response.kind = "exception"
    \/ q.response.status # 200
    \/ q.endpoint \notin {"GET /members/me/boards", "GET /boards/{id}/lists", "POST /cards"}
         /\ ~ q.response.ok

\* C16: every network or API failure at any step of send_private_reply,
\* send_channel_reply or add_trello_task comes back to the caller as
\* (False, reason) and never leaves the function as an exception.
C16_FailuresAreReturned ==
    (\E k \in 1..Len(lastcall.requests) : RequestFailed(lastcall.requests[k])) =>
        /\ lastcall.result.kind = "returned"
        /\ ~ lastcall.result.ok
        /\ lastcall.result.reason # ""

\* The steps of add_trello_task after the credentials check, in order.
TrelloSteps == <<"GET /members/me/boards", "GET /boards/{id}/lists", "POST /cards">>

\* The answer holds a board that is not closed.
GivesBoardId(r) ==
    r.kind = "http" /\ r.status = 200 /\ \E i \in 1..Len(r.items) : ~ r.items[i].closed

\* The answer holds a list.
GivesListId(r) == r.kind = "http" /\ r.status = 200 /\ Len(r.items) > 0

\* C20: add_trello_task goes credentials check, board lookup, list lookup,
\* card creation and stops at the first step that fails: no request without
\* key or token, the list lookup only after a board id was obtained, the
\* POST only after a list id was obtained too, and (True, ...) only if the
\* POST returned status 200.
C20_TrelloStepOrder ==
    lastcall.fn = "add_trello_task" =>
        LET q == lastcall.requests
        IN  /\ Len(q) <= 3
            /\ \A k \in 1..Len(q) : q[k].endpoint = TrelloSteps[k]
            /\ (env.key = "" \/ env.token = "") =>
                  (q = <<>> /\ lastcall.result = Returned(FALSE, "Missing Trello Credentials in .env"))
            /\ (env.key # "" /\ env.token # "") => Len(q) >= 1
            /\ Len(q) >= 2 <=> (Len(q) >= 1 /\ GivesBoardId(q[1].response))
            /\ Len(q) = 3 <=> (Len(q) >= 2 /\ GivesListId(q[2].response))
            /\ lastcall.result.ok =>
                  /\ lastcall.result.kind = "returned"
                  /\ Len(q) = 3
                  /\ q[3].response.kind = "http"
                  /\ q[3].response.status = 200

\* A card was created, after all three requests.
C20_Witness ==
    /\ lastcall.fn = "add_trello_task"
    /\ Len(lastcall.requests) = 3
    /\ lastcall.result = Returned(TRUE, "Card created successfully!")

(* ---------------------------- dashboard claims -------------------------- *)

\* The is_unanswered value of every row, by index label.
Flags(d) == {<<d[k].idx, d[k].is_unanswered>> : k \in 1..Len(d)}

\* C17: whatever buttons are pressed (Resolve, Private Reply, Channel Reply,
\* Trello Task), the is_unanswered value of every row of the loaded table
\* stays what it was; resolving only adds to the session's resolved_tasks.
C17_ResolveLeavesFlags ==
    [][status = "loaded" =>
          /\ status' = "loaded"
          /\ Flags(df') = Flags(df)
          /\ resolved \subseteq resolved']_vars

\* A task that was resolved and is still flagged unanswered in the table.
C17_Witness ==
    /\ status = "loaded"
    /\ \E k \in 1..Len(df) : df[k].idx \in resolved /\ df[k].is_unanswered

\* C18: an outbound call is made only in a run in which load_data has
\* returned the enriched table, and never when that table is empty.
C18_CallsAfterLoad ==
    called => (status = "loaded" /\ df # <<>> /\ lastcall.fn # "")

\* A run that made an outbound call.
C18_Witness ==
    /\ called
    /\ status = "loaded"
    /\ lastcall.fn = "add_trello_task"

(* ------------------------- Tasks dashboard claim ------------------------ *)

\* The row of the loaded table with index label i.
LoadedRow(i) == df[CHOOSE k \in 1..Len(df) : df[k].idx = i]

\* The unanswered, unresolved rows of the selected workspaces and channels.
OpenInSelection ==
    {k \in 1..Len(df) :
        /\ df[k].is_unanswered
        /\ df[k].workspace \in view.workspaces
        /\ df[k].channel \in view.channels
        /\ df[k].idx \notin resolved}

\* What every state of the Tasks dashboard satisfies according to C21.
TasksShownAreOpen ==
    /\ Len(view.tasks) <= 50
    /\ \A k \in 1..Len(view.tasks) :
          /\ view.tasks[k] \notin resolved
          /\ LoadedRow(view.tasks[k]).is_unanswered
          /\ LoadedRow(view.tasks[k]).workspace \in view.workspaces
          /\ LoadedRow(view.tasks[k]).channel \in view.channels

ShuffledRowOf(i) == shuffle.df[CHOOSE k \in 1..Len(shuffle.df) : shuffle.df[k].idx = i]

\* Row i of the file is a question that no message of its channel answers:
\* none that contains '@', lies inside the window and passes the name test.
OpenQuestion(i) ==
    /\ Asks(i)
    /\ ~ \E j \in Rows :
            /\ table[j].channel = table[i].channel
            /\ HasChar(table[j].text, "@")
            /\ InsideWindow(i, j)
            /\ NameTest(table[i].user, table[j].text)

\* C23: is_unanswered does not depend on the order of the rows of the input
\* file.  For every order of the rows, rows of equal channel and timestamp
\* included, load_data ends the same way, every message gets the flag it gets
\* in the original order, and the flag of a row is the one found for that very
\* row: a row is flagged iff it is itself a question left without an answer.
C23_OrderIndependent ==
    shuffle.status # "input" =>
        /\ shuffle.status = status
        /\ status = "loaded" =>
              \A i \in Rows :
                 LET o == shuffle.perm[i]
                 IN  /\ ShuffledRowOf(i).channel = table[o].channel
                     /\ ShuffledRowOf(i).ts = table[o].ts
                     /\ ShuffledRowOf(i).user = table[o].user
                     /\ ShuffledRowOf(i).text = table[o].text
                     /\ ShuffledRowOf(i).is_unanswered = RowOf(o).is_unanswered
                     /\ RowOf(i).is_unanswered <=> OpenQuestion(i)

\* A file with two different messages of one channel and one second, one
\* flagged and one not, loaded as well with these two in the other order.
C23_Witness ==
    /\ status = "loaded"
    /\ shuffle.status = "loaded"
    /\ \E i, j \in Rows :
          /\ i < j
          /\ table[i].channel = table[j].channel
          /\ table[i].ts = table[j].ts
          /\ RowOf(i).is_unanswered
          /\ ~ RowOf(j).is_unanswered
          /\ \E a, b \in Rows : a < b /\ shuffle.perm[a] = j /\ shuffle.perm[b] = i

(* ------------------------------ merge claim ----------------------------- *)

\* The rows of the merged table a workspace filter selects.
FilterByWorkspace(names) == SelectSeq(merged, LAMBDA r : r.workspace \in names)

\* C19: the merged table has as many rows as the two sources together,
\* each source row once, rows with unparseable timestamps included, and
\* filtering it by workspace gives back the row count of each source.
C19_MergeRoundTrip ==
    mstatus = "merged" =>
        /\ Len(merged) = Len(slackcsv) + Len(redditcsv)
        /\ {merged[k].origin : k \in 1..Len(merged)} =
              {<<"slack", i>> : i \in 1..Len(slackcsv)}
                \cup {<<"reddit", i>> : i \in 1..Len(redditcsv)}
        /\ Len(FilterByWorkspace({"reddit"})) = Len(redditcsv)
        /\ Len(FilterByWorkspace({"pythondev"})) = Len(slackcsv)

====
